---- MODULE Spec2Model ----
(***************************************************************************)
(* Model of the hook layer of nextjs-shadcn-base:                          *)
(*   - useOptimisticMutation (src/hooks/react-query/useOptimisticMutation) *)
(*   - usePagination         (src/hooks/api/README.md, lines 111-298)      *)
(*   - useSocket             (src/hooks/custom/useToggle.tsx, 83-214)      *)
(* The react-query client the hooks call (cancelQueries, getQueryData,     *)
(* setQueryData, invalidateQueries, useMutation's callback order) is       *)
(* modelled by what each call does to the one query the hook addresses.    *)
(***************************************************************************)
EXTENDS Integers, Sequences, FiniteSets, TLC

VARIABLES
    heap,          \* object id -> content of that JavaScript object
    queryData,     \* the object cached under queryKey, or Undefined
    fetching,      \* a fetch for queryKey is in flight
    isInvalidated, \* the entry under queryKey is marked stale
    observers,     \* a mounted useQuery observes queryKey
    props,         \* the options the hook was called with
    mut,           \* one record per mutate call
    dataUpdateCount, \* how many times data was written into the entry under queryKey
    pageIndex,     \* usePagination: useState(0)
    pageSize,      \* usePagination: useState(initialPageSize || 10)
    entries,       \* usePagination: window -> cache entry of [...queryKey, pageIndex, pageSize]
    lastDefined,   \* usePagination: the last observed window whose entry had data
    serverTotal,   \* number of items the server holds
    pprops,        \* usePagination: the options the hook was called with
    peer,          \* the window a second component using usePagination with the
                   \* same options observes, or NoWindow when there is none
    socketRef,     \* useSocket: socketRef.current, the socket and its connection
    isConnected,   \* useSocket: useState(false)
    renderPending, \* useSocket: a state change has scheduled a render
    listeners,     \* the handlers registered on socketRef.current, in order
    delivered,     \* the last inbound event and the handlers it invoked
    capacity,      \* useStateWithHistory: the capacity option
    historyValue,  \* useStateWithHistory: useState(defaultValue)
    renderedValue, \* useStateWithHistory: `value` as the last render saw it
    historyRef,    \* useStateWithHistory: historyRef.current
    pointerRef,    \* useStateWithHistory: pointerRef.current (0-based)
    aprops,        \* useAnimatedUnmount: its three arguments
    isVisible,     \* useAnimatedUnmount: useState(initialShouldRender)
    shouldRender,  \* useAnimatedUnmount: useState(initialShouldRender)
    animTimers,    \* useAnimatedUnmount: the timeouts set and not yet fired
    mountEffect,   \* useAnimatedUnmount: the effect of the first render is due
    lastMounted,   \* useAnimatedUnmount: the argument of the last setMounted
    delay,         \* useDebounceCallback: the delay argument, in ticks
    timeoutRef,    \* useTimeout: timeoutRef.current
    callbackRef,   \* useTimeout: callbackRef.current, a callback by its number
    ranCallback,   \* the callback the last timeout ran (Undefined: none ran)
    debTimers,     \* useTimeout: the timeouts set and neither fired nor cleared
    debPhase,      \* useDebounceCallback: "first render", "mounted", "unmounted"
    changed,       \* useDebounceCallback: a dependency changed since the mount
    sinceChange,   \* ticks since the last dependency change (or the mount)
    executions,    \* runs of the callback since the last dependency change
    qprops,        \* useQueryParams: defaultValue and usePush
    searchParams,  \* useQueryParams: useSearchParams(), the query of the URL
    navigation,    \* useQueryParams: the router navigation not yet committed
    historyLength, \* entries router.push added to the browser history
    lastSet,       \* the argument of the last setQueryParam
    storageObject, \* useStorage: the Storage, the item of each key
    storageProps,  \* useStorage: key and defaultValue
    storedValue,   \* useStorage: useState, `value`
    storagePhase,  \* useStorage: "first render" or "mounted"
    storageEffect  \* useStorage: the effect on [key, value] is due

mvars == <<heap, queryData, fetching, isInvalidated, observers, props, mut,
           dataUpdateCount>>
pframe == <<pageIndex, pageSize, lastDefined, serverTotal, pprops, peer>>
pvars == <<pageIndex, pageSize, entries, lastDefined, serverTotal, pprops, peer>>
svars == <<socketRef, isConnected, renderPending, listeners, delivered>>
hvars == <<capacity, historyValue, renderedValue, historyRef, pointerRef>>
avars == <<aprops, isVisible, shouldRender, animTimers, mountEffect, lastMounted>>
dvars == <<delay, timeoutRef, callbackRef, ranCallback, debTimers, debPhase, changed, sinceChange, executions>>
qvars == <<qprops, searchParams, navigation, historyLength, lastSet>>
stvars == <<storageObject, storageProps, storedValue, storagePhase, storageEffect>>
uvars == <<hvars, avars, dvars, qvars, stvars>>
vars == <<heap, queryData, fetching, isInvalidated, observers, props, mut,
          dataUpdateCount, pageIndex, pageSize, entries, lastDefined, serverTotal, pprops, peer,
          socketRef, isConnected, renderPending, listeners, delivered, uvars>>

-----------------------------------------------------------------------------
(* Bounds *)

MaxMut == 1

\* the mutate calls of SpecMut, and those of SpecOverlap (one more)
Muts == 1..MaxMut
Calls == 1..(MaxMut + 1)
\* the content of a cached object: the todo of the documented example
Val == {"done:false", "done:true"}
ObjIds == 1..(2 * (MaxMut + 1) + 2)

MaxRes == 2
Results == 1..MaxRes

\* fetches of queryKey that resolve are counted up to this many data updates
MaxUpdates == 2

\* registrations held by one socket
MaxListeners == 3

\* useStateWithHistory: the largest capacity and the largest state value tried
MaxCapacity == 3
MaxValue == 2

\* useAnimatedUnmount: the longest delay, in ticks, and the most timeouts
\* pending at once
MaxDelay == 2
MaxTimers == 3

\* useDebounceCallback: the callbacks the renders pass, numbered from 1
MaxCallbacks == 2

\* useQueryParams: the longest array given to setQueryParam and the most
\* history entries counted
MaxItems == 2
MaxPushes == 1

MaxPage == 1
AltPageSize == 2
MaxTotal == 3

Undefined == 0
Absent == "absent"
NotYet == "not yet"
NoNumber == Undefined - 1
NoWindow == <<>>

-----------------------------------------------------------------------------
(* The query cache entry under queryKey *)

\* the content read through a reference (undefined reads as Absent)
Deref(h, ref) == IF ref = Undefined THEN Absent ELSE h[ref]

\* queryClient.getQueryData(queryKey): the cached object itself, not a copy
getQueryData == queryData

\* every reference held: the cache's, then each mutation's state and context
Holders(qd, mm) ==
    [i \in 1..(2 * (MaxMut + 1) + 1) |->
        IF i = 1 THEN qd
        ELSE IF i % 2 = 0 THEN mm[i \div 2].state
        ELSE mm[i \div 2].previousState]

Live(qd, mm) == {Holders(qd, mm)[i] : i \in DOMAIN Holders(qd, mm)} \ {Undefined}

Fresh(qd, mm) == CHOOSE o \in ObjIds \ Live(qd, mm) :
                    \A p \in ObjIds \ Live(qd, mm) : o <= p

\* object ids carry no meaning: objects are numbered in the order their first
\* holder appears, and objects nothing refers to are collected
Rank(qd, mm, o) ==
    LET R == Holders(qd, mm)
        first == CHOOSE i \in DOMAIN R : R[i] = o /\ \A j \in DOMAIN R : R[j] = o => i <= j
    IN Cardinality({R[j] : j \in 1..(first - 1)} \ {Undefined}) + 1

Rename(qd, mm, ref) == IF ref = Undefined THEN Undefined ELSE Rank(qd, mm, ref)

Store(h, qd, mm) ==
    /\ queryData' = Rename(qd, mm, qd)
    /\ mut' = [m \in Calls |-> [mm[m] EXCEPT !.state = Rename(qd, mm, @),
                                            !.previousState = Rename(qd, mm, @)]]
    /\ heap' = [n \in ObjIds |->
                  IF \E o \in Live(qd, mm) : Rank(qd, mm, o) = n
                  THEN h[CHOOSE o \in Live(qd, mm) : Rank(qd, mm, o) = n]
                  ELSE "done:false"]

\* queryClient.setQueryData(queryKey, ref): undefined is ignored; data that is
\* deep-equal to the cached data keeps the cached reference
setQueryData(h, qd, ref) ==
    IF ref = Undefined THEN qd
    ELSE IF qd # Undefined /\ h[qd] = h[ref] THEN qd
    ELSE ref

-----------------------------------------------------------------------------
(* useSocket *)

Events == {"message", "typing"}
Handlers == {"h1", "h2"}

\* socketRef.current before the connection effect has run: null
NoSocket == [conn |-> "none", openedBy |-> "none", closedBy |-> "none"]
NothingDelivered == [event |-> "none", handlers |-> <<>>]

\* the handlers an inbound event e invokes: every registration for e, in order
HandlersFor(ls, e) ==
    LET regs == SelectSeq(ls, LAMBDA l : l[1] = e)
    IN [i \in 1..Len(regs) |-> regs[i][2]]

\* socket.off(event) with no listener given removes every listener of event
removeAllListeners(ls, e) == SelectSeq(ls, LAMBDA l : l[1] # e)

\* setIsConnected(v): a render is scheduled when the state changes
setIsConnected(v) ==
    /\ isConnected' = v
    /\ renderPending' = (renderPending \/ isConnected # v)

\* the connection effect, deps [url, socketOptions]: socketOptions is the rest
\* object of `const { url, ...socketOptions } = options`, a new object at every
\* render, so the effect runs after the first render and after every later
\* one. Its cleanup disconnects the current socket (a connected socket emits
\* "disconnect": setIsConnected(false)); then io(url, ...) creates a new socket
\* that has only the effect's "connect"/"disconnect" listeners and connects.
connectionEffect ==
    /\ socketRef = NoSocket \/ renderPending
    /\ socketRef' = [conn |-> "connecting", openedBy |-> "effect", closedBy |-> "none"]
    /\ listeners' = <<>>
    /\ IF socketRef.conn = "connected"
       THEN /\ isConnected' = FALSE
            /\ renderPending' = isConnected
       ELSE /\ isConnected' = isConnected
            /\ renderPending' = FALSE
    /\ UNCHANGED delivered

\* the socket's "connect" event: setIsConnected(true)
onConnect ==
    /\ socketRef.conn = "connecting"
    /\ socketRef' = [socketRef EXCEPT !.conn = "connected"]
    /\ setIsConnected(TRUE)
    /\ UNCHANGED <<listeners, delivered>>

\* the transport closes under a connected socket; the socket's "disconnect"
\* event: setIsConnected(false)
onDisconnect ==
    /\ socketRef.conn = "connected"
    /\ socketRef' = [socketRef EXCEPT !.conn = "disconnected", !.closedBy = "transport"]
    /\ setIsConnected(FALSE)
    /\ UNCHANGED <<listeners, delivered>>

\* io(url, { ...socketOptions, transports }) leaves `reconnection` at its
\* default (true): after a transport closure the socket.io manager opens a new
\* transport by itself
managerReconnect ==
    /\ socketRef.conn = "disconnected"
    /\ socketRef.closedBy = "transport"
    /\ socketRef' = [conn |-> "connecting", openedBy |-> "manager", closedBy |-> "none"]
    /\ UNCHANGED <<isConnected, renderPending, listeners, delivered>>

\* reconnect(): if (socketRef.current) socketRef.current.connect()
reconnect ==
    /\ socketRef.conn = "disconnected"
    /\ socketRef' = [conn |-> "connecting", openedBy |-> "caller", closedBy |-> "none"]
    /\ UNCHANGED <<isConnected, renderPending, listeners, delivered>>

\* on(event, callback): if (socketRef.current) socketRef.current.on(event, callback)
on(e, h) ==
    /\ socketRef # NoSocket
    /\ Len(listeners) < MaxListeners
    /\ listeners' = Append(listeners, <<e, h>>)
    /\ UNCHANGED <<socketRef, isConnected, renderPending, delivered>>

\* off(event): if (socketRef.current) socketRef.current.off(event)
off(e) ==
    /\ socketRef # NoSocket
    /\ listeners' = removeAllListeners(listeners, e)
    /\ UNCHANGED <<socketRef, isConnected, renderPending, delivered>>

\* the server sends event e over a connected socket
inbound(e) ==
    /\ socketRef.conn = "connected"
    /\ delivered' = [event |-> e, handlers |-> HandlersFor(listeners, e)]
    /\ UNCHANGED <<socketRef, isConnected, renderPending, listeners>>

InitSocketIdle ==
    /\ socketRef = NoSocket
    /\ isConnected = FALSE
    /\ renderPending = FALSE
    /\ listeners = <<>>
    /\ delivered = NothingDelivered

-----------------------------------------------------------------------------
(* useStateWithHistory *)

HValues == 0..MaxValue

\* historyRef.current[i] for a 0-based i; outside the array it reads undefined
At(h, i) == IF 0 <= i /\ i < Len(h) THEN h[i + 1] ELSE NoNumber

\* historyRef.current.splice(pointerRef.current + 1) when the pointer is not at
\* the last index
Splice(h, pointer) ==
    IF pointer < Len(h) - 1 THEN SubSeq(h, 1, pointer + 1) ELSE h

\* (mutant) the history is never trimmed
TrimNever(h, cap) == h

\* while (historyRef.current.length > capacity) historyRef.current.shift()
RECURSIVE Trim(_, _)
Trim(h, cap) == IF Len(h) > cap THEN Trim(Tail(h), cap) ELSE h

\* (mutant) the entries after the pointer are kept
setResolvedKeepsFuture(resolvedValue) ==
    /\ IF At(historyRef, pointerRef) # resolvedValue
       THEN /\ historyRef' = Trim(Append(historyRef, resolvedValue), capacity)
            /\ pointerRef' = Len(historyRef') - 1
       ELSE UNCHANGED <<historyRef, pointerRef>>
    /\ historyValue' = resolvedValue
    /\ UNCHANGED <<capacity, renderedValue>>

\* set, once v is resolved: update the history when the value differs from the
\* current entry, then setValue(resolvedValue)
setResolved(resolvedValue) ==
    /\ IF At(historyRef, pointerRef) # resolvedValue
       THEN /\ historyRef' = Trim(Append(Splice(historyRef, pointerRef), resolvedValue),
                                  capacity)
            /\ pointerRef' = Len(historyRef') - 1
       ELSE UNCHANGED <<historyRef, pointerRef>>
    /\ historyValue' = resolvedValue
    /\ UNCHANGED <<capacity, renderedValue>>

\* set(v) with a value
set(v) == setResolved(v)

\* set(v) with a function: v(value), `value` being the one of the render that
\* created this `set`; the function tried is prev => prev + 1 (wrapping)
setUpdater == setResolved((renderedValue + 1) % (MaxValue + 1))

\* the component renders again after setValue changed the state
renderHistory ==
    /\ renderedValue # historyValue
    /\ renderedValue' = historyValue
    /\ UNCHANGED <<capacity, historyValue, historyRef, pointerRef>>

\* (mutant) back without its guard
backUnguarded ==
    /\ pointerRef' = pointerRef - 1
    /\ historyValue' = At(historyRef, pointerRef')
    /\ UNCHANGED <<capacity, renderedValue, historyRef>>

\* back: if (pointerRef.current <= 0) return; pointerRef.current--; setValue(...)
back ==
    IF pointerRef <= 0 THEN UNCHANGED hvars
    ELSE /\ pointerRef' = pointerRef - 1
         /\ historyValue' = At(historyRef, pointerRef')
         /\ UNCHANGED <<capacity, renderedValue, historyRef>>

\* forward: if (pointerRef.current >= historyRef.current.length - 1) return; ...
forward ==
    IF pointerRef >= Len(historyRef) - 1 THEN UNCHANGED hvars
    ELSE /\ pointerRef' = pointerRef + 1
         /\ historyValue' = At(historyRef, pointerRef')
         /\ UNCHANGED <<capacity, renderedValue, historyRef>>

\* go(index): if (index < 0 || index > historyRef.current.length - 1) return; ...
go(index) ==
    IF index < 0 \/ index > Len(historyRef) - 1 THEN UNCHANGED hvars
    ELSE /\ pointerRef' = index
         /\ historyValue' = At(historyRef, pointerRef')
         /\ UNCHANGED <<capacity, renderedValue, historyRef>>

InitHistoryIdle ==
    /\ capacity = MaxCapacity
    /\ historyValue = 0
    /\ renderedValue = 0
    /\ historyRef = <<0>>
    /\ pointerRef = 0

-----------------------------------------------------------------------------
(* Timeouts: setTimeout(run, delay) in a sequence kept in the order of the calls *)

\* the id setTimeout returns: one no pending timeout has
NextId(timers) ==
    CHOOSE n \in 1..(Len(timers) + 1) :
        /\ \A i \in 1..Len(timers) : timers[i].id # n
        /\ \A k \in 1..(n - 1) : \E i \in 1..Len(timers) : timers[i].id = k

\* setTimeout(run, delay)
setTimeout(timers, run, d) ==
    Append(timers, [id |-> NextId(timers), left |-> d, run |-> run])

\* clearTimeout(id)
clearTimeout(timers, id) == SelectSeq(timers, LAMBDA t : t.id # id)

\* a timeout is due
Due(timers) == \E i \in 1..Len(timers) : timers[i].left = 0

\* the due timeout the event loop runs next: the one set first
NextDue(timers) ==
    CHOOSE i \in 1..Len(timers) :
        /\ timers[i].left = 0
        /\ \A j \in 1..(i - 1) : timers[j].left # 0

\* the timeouts without the i-th
Without(timers, i) == SubSeq(timers, 1, i - 1) \o SubSeq(timers, i + 1, Len(timers))

\* one tick of time passes for every pending timeout
Elapse(timers) == [i \in 1..Len(timers) |-> [timers[i] EXCEPT !.left = @ - 1]]

-----------------------------------------------------------------------------
(* useAnimatedUnmount *)

\* setMounted(value)
setMounted(value) ==
    /\ Len(animTimers) < MaxTimers
    /\ IF value
       THEN /\ shouldRender' = TRUE
            /\ animTimers' = setTimeout(animTimers, "setIsVisible(true)", aprops.mountDelay)
            /\ UNCHANGED isVisible
       ELSE /\ isVisible' = FALSE
            /\ animTimers' = setTimeout(animTimers, "setShouldRender(false)",
                                        aprops.unmountDelay)
            /\ UNCHANGED shouldRender
    /\ lastMounted' = value
    /\ UNCHANGED aprops

\* a call of setMounted by the component
setMountedCall(value) ==
    /\ ~mountEffect
    /\ setMounted(value)
    /\ UNCHANGED mountEffect

\* useEffect(() => setMounted(initialShouldRender)) after the first render
setMountedEffect ==
    /\ mountEffect
    /\ mountEffect' = FALSE
    /\ setMounted(aprops.initialShouldRender)

\* the callback of a due timeout runs
animTimeout ==
    /\ Due(animTimers)
    /\ LET i == NextDue(animTimers) IN
         /\ animTimers' = Without(animTimers, i)
         /\ IF animTimers[i].run = "setIsVisible(true)"
            THEN isVisible' = TRUE /\ UNCHANGED shouldRender
            ELSE shouldRender' = FALSE /\ UNCHANGED isVisible
    /\ UNCHANGED <<aprops, mountEffect, lastMounted>>

\* time passes while no timeout is due
animTick ==
    /\ animTimers # <<>>
    /\ ~Due(animTimers)
    /\ animTimers' = Elapse(animTimers)
    /\ UNCHANGED <<aprops, isVisible, shouldRender, mountEffect, lastMounted>>

\* the state of the first render for given arguments
InitAnimatedWith(initialShouldRender, mountDelay, unmountDelay) ==
    /\ aprops = [initialShouldRender |-> initialShouldRender,
                 mountDelay |-> mountDelay, unmountDelay |-> unmountDelay]
    /\ isVisible = initialShouldRender
    /\ shouldRender = initialShouldRender
    /\ animTimers = <<>>
    /\ mountEffect = TRUE
    /\ lastMounted = initialShouldRender

InitAnimatedIdle == InitAnimatedWith(FALSE, 1, MaxDelay)

-----------------------------------------------------------------------------
(* useTimeout and useDebounceCallback *)

\* (mutant) clear leaves the timeout pending
clearNoop(timers, ref) == timers

\* clear: timeoutRef.current && clearTimeout(timeoutRef.current)
clear(timers, ref) == IF ref # Undefined THEN clearTimeout(timers, ref) ELSE timers

\* the effects of the first commit, in the order of the hooks: useTimeout's
\* set(), then useEffect(reset, ...), then useEffect(clear, []), which runs
\* clear as an effect
debounceMount ==
    /\ debPhase = "first render"
    /\ LET set1 == setTimeout(debTimers, "callbackRef.current()", delay)
           ref1 == NextId(debTimers)
           reset1 == clear(set1, ref1)
           set2 == setTimeout(reset1, "callbackRef.current()", delay)
           ref2 == NextId(reset1)
       IN /\ debTimers' = clear(set2, ref2)
          /\ timeoutRef' = ref2
    /\ debPhase' = "mounted"
    /\ UNCHANGED <<delay, callbackRef, ranCallback, changed, sinceChange, executions>>

\* a render with a changed dependency: useEffect(reset, [...dependencies, reset])
\* runs reset, which is clear() then set()
dependencyChange ==
    /\ debPhase = "mounted"
    /\ LET cleared == clear(debTimers, timeoutRef)
       IN /\ debTimers' = setTimeout(cleared, "callbackRef.current()", delay)
          /\ timeoutRef' = NextId(cleared)
    /\ changed' = TRUE
    /\ sinceChange' = 0
    /\ executions' = 0
    /\ UNCHANGED <<delay, callbackRef, ranCallback, debPhase>>

\* a render that passes another callback without changing a dependency:
\* useEffect(() => { callbackRef.current = callback }, [callback])
callbackChange(c) ==
    /\ debPhase = "mounted"
    /\ c # callbackRef
    /\ callbackRef' = c
    /\ UNCHANGED <<delay, timeoutRef, ranCallback, debTimers, debPhase, changed,
                   sinceChange, executions>>

\* a render with another delay: `set` and `reset` are new functions, so
\* useTimeout's effect runs its cleanup (clear) and set(), and then the
\* dependency `reset` of useEffect(reset, [...dependencies, reset]) has changed
delayChange(d) ==
    /\ debPhase = "mounted"
    /\ d # delay
    /\ delay' = d
    /\ LET cleanup == clear(debTimers, timeoutRef)
           set1 == setTimeout(cleanup, "callbackRef.current()", d)
           ref1 == NextId(cleanup)
           reset1 == clear(set1, ref1)
       IN /\ debTimers' = setTimeout(reset1, "callbackRef.current()", d)
          /\ timeoutRef' = NextId(reset1)
    /\ changed' = TRUE
    /\ sinceChange' = 0
    /\ executions' = 0
    /\ UNCHANGED <<callbackRef, ranCallback, debPhase>>

\* the component unmounts: the cleanup `clear` of useTimeout's effect
debounceUnmount ==
    /\ debPhase = "mounted"
    /\ debTimers' = clear(debTimers, timeoutRef)
    /\ debPhase' = "unmounted"
    /\ UNCHANGED <<delay, timeoutRef, callbackRef, ranCallback, changed, sinceChange,
                   executions>>

\* a due timeout runs callbackRef.current()
debTimeout ==
    /\ Due(debTimers)
    /\ debTimers' = Without(debTimers, NextDue(debTimers))
    /\ executions' = IF executions < 2 THEN executions + 1 ELSE executions
    /\ ranCallback' = callbackRef
    /\ UNCHANGED <<delay, timeoutRef, callbackRef, debPhase, changed, sinceChange>>

\* time passes while no timeout is due
debTick ==
    /\ debPhase # "first render"
    /\ ~Due(debTimers)
    /\ debTimers # <<>> \/ sinceChange <= delay
    /\ debTimers' = Elapse(debTimers)
    /\ sinceChange' = IF sinceChange <= delay THEN sinceChange + 1 ELSE sinceChange
    /\ UNCHANGED <<delay, timeoutRef, callbackRef, ranCallback, debPhase, changed,
                   executions>>

InitDebounceWith(d) ==
    /\ delay = d
    /\ timeoutRef = Undefined
    /\ callbackRef = 1
    /\ ranCallback = Undefined
    /\ debTimers = <<>>
    /\ debPhase = "first render"
    /\ changed = FALSE
    /\ sinceChange = 0
    /\ executions = 0

InitDebounceIdle == InitDebounceWith(1)

-----------------------------------------------------------------------------
(* useQueryParams *)

\* A string is the sequence of its characters; a value given to setQueryParam
\* or as defaultValue is [isArray, items]: the items of an array, or the one
\* string of a string value.
Str(chars) == chars
EmptyString == Str(<<>>)
Strings == {EmptyString, Str(<<"a">>), Str(<<"b">>), Str(<<"a", ",", "b">>)}
StringValue(str) == [isArray |-> FALSE, items |-> <<str>>]
ArrayValue(items) == [isArray |-> TRUE, items |-> items]
NoValue == [isArray |-> FALSE, items |-> <<>>]

\* the values tried: every string, and every array of up to MaxItems strings
Arrays == UNION {[1..n -> Strings] : n \in 0..MaxItems}
QValues == {StringValue(str) : str \in Strings} \cup {ArrayValue(a) : a \in Arrays}

paramName == "filter"

\* URLSearchParams.get(name): the first value of that name, or null
has(params, name) == \E i \in 1..Len(params) : params[i].name = name
get(params, name) ==
    LET i == CHOOSE i \in 1..Len(params) :
                 /\ params[i].name = name
                 /\ \A j \in 1..(i - 1) : params[j].name # name
    IN params[i].value

\* URLSearchParams.delete(name)
delete(params, name) == SelectSeq(params, LAMBDA e : e.name # name)

\* URLSearchParams.append(name, value), for each value of an array in turn
RECURSIVE appendAll(_, _, _)
appendAll(params, name, values) ==
    IF values = <<>> THEN params
    ELSE appendAll(Append(params, [name |-> name, value |-> Head(values)]),
                   name, Tail(values))

\* URLSearchParams.set(name, value): the first entry of that name takes the
\* value and the others go; without one the entry is appended
setParam(params, name, value) ==
    IF ~has(params, name) THEN Append(params, [name |-> name, value |-> value])
    ELSE LET first == CHOOSE i \in 1..Len(params) :
                          /\ params[i].name = name
                          /\ \A j \in 1..(i - 1) : params[j].name # name
             kept == [i \in 1..Len(params) |->
                         IF i = first THEN [name |-> name, value |-> value]
                         ELSE params[i]]
             keepIndex == {i \in 1..Len(params) : i = first \/ params[i].name # name}
             RECURSIVE pick(_)
             pick(i) == IF i > Len(params) THEN <<>>
                        ELSE IF i \in keepIndex THEN <<kept[i]>> \o pick(i + 1)
                        ELSE pick(i + 1)
         IN pick(1)

\* params.toString(): each value percent-encoded ("," becomes "%2C")
encode(str) == [i \in 1..Len(str) |-> IF str[i] = "," THEN "%2C" ELSE str[i]]
toString(params) ==
    [i \in 1..Len(params) |-> [name |-> params[i].name, value |-> encode(params[i].value)]]

\* the search params the router builds from the URL it navigated to
decode(str) == [i \in 1..Len(str) |-> IF str[i] = "%2C" THEN "," ELSE str[i]]
parse(url) ==
    [i \in 1..Len(url) |-> [name |-> url[i].name, value |-> decode(url[i].value)]]

\* str.split(",")
RECURSIVE split(_)
split(str) ==
    IF \A i \in 1..Len(str) : str[i] # "," THEN <<str>>
    ELSE LET i == CHOOSE i \in 1..Len(str) :
                      /\ str[i] = ","
                      /\ \A j \in 1..(i - 1) : str[j] # ","
         IN <<SubSeq(str, 1, i - 1)>> \o split(SubSeq(str, i + 1, Len(str)))

\* getQueryParam()
getQueryParam ==
    IF has(searchParams, paramName) THEN [null |-> FALSE, value |-> get(searchParams, paramName)]
    ELSE [null |-> TRUE, value |-> EmptyString]

\* queryParams: params ? params.split(",") : the default as an array
queryParams ==
    LET params == getQueryParam
    IN IF ~params.null /\ params.value # EmptyString THEN split(params.value)
       ELSE qprops.defaultValue.items

NoNavigation == [pending |-> FALSE, push |-> FALSE, url |-> <<>>]

\* setQueryParam(value): build the params from the current search params and
\* hand the URL to router.push or router.replace
setQueryParam(value) ==
    /\ LET params == IF value.isArray
                     THEN appendAll(delete(searchParams, paramName), paramName, value.items)
                     ELSE IF value.items[1] = EmptyString
                     THEN delete(searchParams, paramName)
                     ELSE setParam(searchParams, paramName, value.items[1])
       IN navigation' = [pending |-> TRUE, push |-> qprops.usePush, url |-> toString(params)]
    /\ lastSet' = value
    /\ UNCHANGED <<qprops, searchParams, historyLength>>

\* the router commits the navigation; useSearchParams() returns the new query
navigate ==
    /\ navigation.pending
    /\ searchParams' = parse(navigation.url)
    /\ historyLength' = IF navigation.push /\ historyLength < MaxPushes
                        THEN historyLength + 1 ELSE historyLength
    /\ navigation' = NoNavigation
    /\ UNCHANGED <<qprops, lastSet>>

InitQueryWith(defaultValue, usePush, query) ==
    /\ qprops = [defaultValue |-> defaultValue, usePush |-> usePush]
    /\ searchParams = query
    /\ navigation = NoNavigation
    /\ historyLength = 0
    /\ lastSet = NoValue

InitQueryIdle == InitQueryWith(ArrayValue(<<>>), FALSE, <<>>)

-----------------------------------------------------------------------------
(* useStorage *)

\* JavaScript values, by their source text, and the texts a Storage holds;
\* getItem returns null for a key without an item
JsValues == {"undefined", "null", "NaN", "1", "'John'"}
Null == "(null)"
Keys == {"name", "token"}

\* JSON.stringify(value)
stringify(value) ==
    CASE value = "null" -> "null"
      [] value = "NaN" -> "null"
      [] value = "1" -> "1"
      [] value = "'John'" -> "\"John\""
      [] OTHER -> "undefined"

\* JSON.parse(text) of the texts JSON.stringify produces
parseJson(text) ==
    CASE text = "null" -> "null"
      [] text = "1" -> "1"
      [] text = "\"John\"" -> "'John'"
      [] OTHER -> "SyntaxError"

JsonTexts == {stringify(v) : v \in JsValues \ {"undefined"}}

\* the useState initializer: the parsed item when there is one, else the
\* default, called when it is a function
InitialValue(storage, key, defaultValue) ==
    IF storage[key] # Null THEN parseJson(storage[key]) ELSE defaultValue.value

\* (mutant) the effect writes the value even when it is undefined
storageSyncAlwaysSets ==
    /\ storageEffect
    /\ storageEffect' = FALSE
    /\ storagePhase' = "mounted"
    /\ storageObject' = [storageObject EXCEPT ![storageProps.key] = stringify(storedValue)]
    /\ UNCHANGED <<storageProps, storedValue>>

\* useEffect on [key, value, storageObject]: removeItem for undefined, else
\* setItem(key, JSON.stringify(value))
storageSync ==
    /\ storageEffect
    /\ storageEffect' = FALSE
    /\ storagePhase' = "mounted"
    /\ storageObject' =
          [storageObject EXCEPT ![storageProps.key] =
              IF storedValue = "undefined" THEN Null ELSE stringify(storedValue)]
    /\ UNCHANGED <<storageProps, storedValue>>

\* setValue(v): a new value re-renders and makes the effect due; the same
\* value (Object.is) does nothing
setValue(v) ==
    /\ storagePhase = "mounted"
    /\ storedValue' = v
    /\ storageEffect' = (storageEffect \/ v # storedValue)
    /\ UNCHANGED <<storageObject, storageProps, storagePhase>>

\* remove: setValue(undefined)
remove == setValue("undefined")

\* a render with another key: the state is kept, the effect is due
keyChange(key) ==
    /\ storagePhase = "mounted"
    /\ key # storageProps.key
    /\ storageProps' = [storageProps EXCEPT !.key = key]
    /\ storageEffect' = TRUE
    /\ UNCHANGED <<storageObject, storedValue, storagePhase>>

InitStorageWith(storage, key, defaultValue) ==
    /\ storageObject = storage
    /\ storageProps = [key |-> key, defaultValue |-> defaultValue]
    /\ storedValue = InitialValue(storage, key, defaultValue)
    /\ storagePhase = "first render"
    /\ storageEffect = TRUE

InitStorageIdle ==
    InitStorageWith([k \in Keys |-> Null], "name", [isFunction |-> FALSE, value |-> "'John'"])

InitUtilIdle ==
    InitHistoryIdle /\ InitAnimatedIdle /\ InitDebounceIdle /\ InitQueryIdle /\ InitStorageIdle

-----------------------------------------------------------------------------
(* Query keys and the queries of the pagination windows *)

\* the queryKey useOptimisticMutation is called with
queryKey == <<"todos">>

\* the queryKey usePagination can be called with: the same resource or another
PaginationKeys == {<<"todos">>, <<"users">>}

\* (mutant) a filter's queryKey matches only the query with exactly that key
exactMatchKey(key, prefix) == key = prefix

\* a filter's queryKey matches every query whose key starts with it
partialMatchKey(key, prefix) ==
    Len(prefix) <= Len(key) /\ SubSeq(key, 1, Len(prefix)) = prefix

\* queryKey: [...queryKey, pageIndex, pageSize]
WindowKey(w) == pprops.queryKey \o w

\* enabled: pageIndex > -1 && enabled
Enabled(index) == index > (0 - 1) /\ pprops.enabled

\* the query starts a fetch: queryFn is invoked; a query without data goes
\* back to status pending; the state before the fetch is kept for a revert
StartFetch(e) ==
    [e EXCEPT !.fetching = TRUE,
              !.invoked = @ + 1,
              !.revertStatus = e.status,
              !.status = IF e.data.defined THEN @ ELSE "pending"]

\* cancelQueries({ queryKey }) on the window queries: a matching query that is
\* fetching drops its fetch and reverts to its state before the fetch (the
\* promise of fetchData itself keeps running unobserved)
cancelWindows(es) ==
    [w \in DOMAIN es |->
        IF partialMatchKey(WindowKey(w), queryKey) /\ es[w].fetching
        THEN [es[w] EXCEPT !.fetching = FALSE, !.invoked = 0,
                           !.status = es[w].revertStatus,
                           !.revertStatus = "pending"]
        ELSE es[w]]

\* a query is active when a mounted, enabled useQuery observes it
Active(w) == Enabled(w[1]) /\ (w = <<pageIndex, pageSize>> \/ w = peer)

\* invalidateQueries({ queryKey }) on the window queries: every matching query
\* is marked invalidated (the mark matters for a query with data; one without
\* data is stale anyway) and the active ones are refetched
invalidateWindows(es) ==
    [w \in DOMAIN es |->
        IF partialMatchKey(WindowKey(w), queryKey)
        THEN LET e == [es[w] EXCEPT !.isInvalidated = es[w].data.defined]
             IN IF Active(w) /\ ~e.fetching THEN StartFetch(e) ELSE e
        ELSE es[w]]

-----------------------------------------------------------------------------
(* useOptimisticMutation *)

\* (mutant) shouldRefetchQuery is ignored
ShouldRefetchAlways(p) == TRUE

\* shouldRefetchQuery = true (the destructuring default)
ShouldRefetch(p) == p.shouldRefetchQuery # "false"

\* the caller's optimisticUpdateFn(state, variables): returns void, so it
\* updates the object it is handed in place (state.done = variables.done)
optimisticUpdateFn(content, variables) == variables

\* (mutant) cancelQueries leaves the in-flight fetch running
cancelQueriesNoop(f) == f

\* queryClient.cancelQueries({ queryKey }): an in-flight fetch is dropped
cancelQueries(f) == FALSE

\* (mutant) the awaited promise resolves only when a fetch was cancelled
cancelSettledOnlyIfCancelled(m) == mut[m].pc = "cancelling" /\ mut[m].cancelled

\* await cancelQueries(...): its promise always resolves (errors are swallowed)
cancelSettled(m) == mut[m].pc = "cancelling"

\* queryClient.invalidateQueries({ queryKey }) on an existing query: mark it
\* stale; an observed query is refetched (a running fetch is replaced)
QueryExists == observers \/ queryData # Undefined \/ fetching

Append2(s, a, b) == Append(Append(s, a), b)

ClearPredates(mm) == [k \in Calls |-> [mm[k] EXCEPT !.predates = FALSE]]

IdleMut == [pc |-> "idle", variables |-> "done:false", state |-> Undefined,
            previousState |-> Undefined, result |-> 0, successArg |-> 0,
            log |-> <<>>, predates |-> FALSE, cancelled |-> FALSE,
            atMutate |-> NotYet]

\* mutate(variables): useMutation starts the mutation and runs onMutate up to
\* its await: queryClient.cancelQueries({ queryKey }). `state` is the object
\* the last render handed to the hook: the cached object itself (alias) or a
\* copy of it held elsewhere
mutate(m, v, alias) ==
    /\ mut[m].pc = "idle"
    /\ \A k \in Calls : k < m => mut[k].pc # "idle"
    /\ fetching' = cancelQueries(fetching)
    /\ LET shared == alias /\ queryData # Undefined
           st == IF shared THEN queryData ELSE Fresh(queryData, mut)
           h2 == IF shared THEN heap
                 ELSE [heap EXCEPT ![st] =
                          IF queryData # Undefined THEN heap[queryData]
                          ELSE "done:false"]
           mm == [k \in Calls |->
                    IF k = m
                    THEN [mut[k] EXCEPT !.pc = "cancelling",
                                        !.variables = v,
                                        !.state = st,
                                        !.atMutate = Deref(heap, queryData),
                                        !.log = Append(@, "cancel"),
                                        !.cancelled = fetching /\ ~fetching',
                                        !.predates = fetching /\ fetching']
                    ELSE [mut[k] EXCEPT !.predates = @ /\ fetching']]
       IN Store(h2, queryData, mm)
    /\ entries' = cancelWindows(entries)
    /\ UNCHANGED <<isInvalidated, observers, props, dataUpdateCount>>
    /\ UNCHANGED pframe

\* (mutant) the optimistic update runs before the snapshot is taken
onMutateApplyFirst(m) ==
    /\ cancelSettled(m)
    /\ LET h2 == [heap EXCEPT ![mut[m].state] =
                     optimisticUpdateFn(@, mut[m].variables)]
           mm == [mut EXCEPT ![m] = [@ EXCEPT !.pc = "applied",
                                              !.previousState = queryData,
                                              !.log = Append(Append(@, "apply"), "snapshot")]]
       IN Store(h2, queryData, mm)
    /\ UNCHANGED <<fetching, isInvalidated, observers, props, dataUpdateCount>>

\* (mutant) onMutate waits until no other mutation on the key is unsettled
onMutateSerialized(m) ==
    /\ cancelSettled(m)
    /\ \A k \in Calls \ {m} :
          mut[k].pc \in {"idle", "cancelling", "settledSuccess", "settledError"}
    /\ LET h2 == [heap EXCEPT ![mut[m].state] =
                     optimisticUpdateFn(@, mut[m].variables)]
           mm == [mut EXCEPT ![m] = [@ EXCEPT !.pc = "applied",
                                              !.previousState = queryData,
                                              !.log = Append(Append(@, "snapshot"), "apply")]]
       IN Store(h2, queryData, mm)
    /\ UNCHANGED <<fetching, isInvalidated, observers, props, dataUpdateCount>>

\* onMutate, after the await: snapshot, optimistic update, return the context
onMutate(m) ==
    /\ cancelSettled(m)
    /\ LET previousState == getQueryData
           h2 == [heap EXCEPT ![mut[m].state] =
                     optimisticUpdateFn(@, mut[m].variables)]
           mm == [mut EXCEPT ![m] = [@ EXCEPT !.pc = "applied",
                                              !.previousState = previousState,
                                              !.log = Append2(@, "snapshot", "apply")]]
       IN Store(h2, queryData, mm)
    /\ UNCHANGED <<fetching, isInvalidated, observers, props, dataUpdateCount>>

\* useMutation calls mutationFn(variables) once onMutate has resolved
mutationFn(m) ==
    /\ mut[m].pc = "applied"
    /\ mut' = [mut EXCEPT ![m] = [@ EXCEPT !.pc = "remote",
                                            !.log = Append(@, "invoke")]]
    /\ UNCHANGED <<heap, queryData, fetching, isInvalidated, observers, props,
                   dataUpdateCount>>

\* (mutant) onSuccess hands the caller something other than the result
onSuccessWrongData(m, r) ==
    /\ mut[m].pc = "remote"
    /\ mut' = [mut EXCEPT ![m] =
                 IF props.onSuccess
                 THEN [@ EXCEPT !.pc = "succeeded",
                                !.result = r,
                                !.successArg = 0,
                                !.log = Append(@, "onSuccess")]
                 ELSE [@ EXCEPT !.pc = "succeeded", !.result = r]]
    /\ UNCHANGED <<heap, queryData, fetching, isInvalidated, observers, props,
                   dataUpdateCount>>

\* (mutant) the mutation is still pending after onSuccess
onSuccessStillPending(m, r) ==
    /\ mut[m].pc = "remote"
    /\ Len(mut[m].log) < 8
    /\ mut' = [mut EXCEPT ![m] = [@ EXCEPT !.result = r,
                                            !.successArg = r,
                                            !.log = Append(@, "onSuccess")]]
    /\ UNCHANGED <<heap, queryData, fetching, isInvalidated, observers, props,
                   dataUpdateCount>>

\* mutationFn resolved with r; onSuccess: (data) => { if (onSuccess) onSuccess(data) }
onSuccess(m, r) ==
    /\ mut[m].pc = "remote"
    /\ mut' = [mut EXCEPT ![m] =
                 IF props.onSuccess
                 THEN [@ EXCEPT !.pc = "succeeded",
                                !.result = r,
                                !.successArg = r,
                                !.log = Append(@, "onSuccess")]
                 ELSE [@ EXCEPT !.pc = "succeeded", !.result = r]]
    /\ UNCHANGED <<heap, queryData, fetching, isInvalidated, observers, props,
                   dataUpdateCount>>

\* (mutant) a rejection is answered by invoking mutationFn again
onErrorRetries(m) ==
    /\ mut[m].pc = "remote"
    /\ mut' = [mut EXCEPT ![m] = [@ EXCEPT !.pc = "applied"]]
    /\ UNCHANGED <<heap, queryData, fetching, isInvalidated, observers, props,
                   dataUpdateCount>>

\* mutationFn rejected (useMutation retries nothing by default); onError:
\* setQueryData(queryKey, context?.previousState), then if (onError) onError(error)
onError(m) ==
    /\ mut[m].pc = "remote"
    /\ LET qd2 == setQueryData(heap, queryData, mut[m].previousState)
           mm == [mut EXCEPT ![m] =
                    [@ EXCEPT !.pc = "failed",
                              !.log = IF props.onError
                                      THEN Append2(@, "restore", "onError")
                                      ELSE Append(@, "restore")]]
       IN /\ Store(heap, qd2, mm)
          /\ isInvalidated' = IF mut[m].previousState # Undefined
                              THEN FALSE ELSE isInvalidated
          /\ dataUpdateCount' = IF mut[m].previousState # Undefined
                                THEN dataUpdateCount + 1 ELSE dataUpdateCount
    /\ UNCHANGED <<fetching, observers, props>>

\* (mutant) shouldRefetchQuery is honoured only after a success
ShouldRefetchOnSuccessOnly(p, outcome) ==
    p.shouldRefetchQuery # "false" /\ outcome = "succeeded"

\* onSettled runs after success and after error alike
ShouldInvalidate(p, outcome) == ShouldRefetch(p)

\* onSettled: if (shouldRefetchQuery) invalidateQueries({ queryKey }).
\* Nothing reads the mutation's variables, `state` or context after this, so
\* the settled mutation keeps only its outcome and its log.
onSettled(m) ==
    /\ mut[m].pc \in {"succeeded", "failed"}
    /\ LET inv == ShouldInvalidate(props, mut[m].pc)
           refetch == inv /\ observers
           mm == [k \in Calls |->
                    IF k = m
                    THEN [IdleMut EXCEPT
                            !.pc = IF mut[m].pc = "succeeded"
                                   THEN "settledSuccess" ELSE "settledError",
                            !.log = IF inv THEN Append(mut[m].log, "invalidate")
                                    ELSE mut[m].log]
                    ELSE [mut[k] EXCEPT
                            !.predates = IF refetch THEN FALSE ELSE @]]
       IN /\ isInvalidated' = IF inv /\ QueryExists THEN TRUE ELSE isInvalidated
          /\ fetching' = IF refetch THEN TRUE ELSE fetching
          /\ Store(heap, queryData, mm)
          /\ entries' = IF inv THEN invalidateWindows(entries) ELSE entries
    /\ UNCHANGED <<observers, props, dataUpdateCount>>
    /\ UNCHANGED pframe

-----------------------------------------------------------------------------
(* The query observed under queryKey (useQuery) *)

\* the observer starts a fetch (mount, window focus, interval); one per query
fetchStart ==
    /\ observers
    /\ ~fetching
    /\ fetching' = TRUE
    /\ UNCHANGED <<heap, queryData, isInvalidated, observers, props, mut,
                   dataUpdateCount>>

\* (mutant) the result of the fetch is dropped
fetchResolveIgnored(v) ==
    /\ fetching
    /\ dataUpdateCount < MaxUpdates
    /\ fetching' = FALSE
    /\ mut' = ClearPredates(mut)
    /\ UNCHANGED <<heap, queryData, isInvalidated, observers, props, dataUpdateCount>>

\* the fetch resolves with content v: the entry is replaced by a new object
\* unless the content is deep-equal to the cached one
fetchResolve(v) ==
    /\ fetching
    /\ dataUpdateCount < MaxUpdates
    /\ LET keep == queryData # Undefined /\ heap[queryData] = v
           o == IF keep THEN queryData ELSE Fresh(queryData, mut)
           mm == ClearPredates(mut)
       IN Store([heap EXCEPT ![o] = v], o, mm)
    /\ fetching' = FALSE
    /\ isInvalidated' = FALSE
    /\ dataUpdateCount' = dataUpdateCount + 1
    /\ UNCHANGED <<observers, props>>

\* the fetch rejects: the cached data stays
fetchReject ==
    /\ fetching
    /\ fetching' = FALSE
    /\ mut' = ClearPredates(mut)
    /\ UNCHANGED <<heap, queryData, isInvalidated, observers, props, dataUpdateCount>>

-----------------------------------------------------------------------------
(* usePagination *)

\* useState(initialPageSize || 10)
DefaultPageSize == 10
InitialPageSize(initialPageSize) ==
    IF initialPageSize = Undefined THEN DefaultPageSize ELSE initialPageSize

PageIndexes == (0 - 1)..MaxPage
PageSizes == {AltPageSize, DefaultPageSize}
Windows == PageIndexes \X PageSizes

\* what the server holds and how it reports "no such page"
Totals == {0, MaxTotal, 25}
Styles == {"boolean", "nullable", "no paging"}

\* `items` stands for the page of items of a response: the window it was
\* fetched for
NoData == [defined |-> FALSE, items |-> NoWindow, paging |-> FALSE,
           totalItems |-> 0, totalPages |-> 0,
           hasNextPage |-> "undefined", hasPreviousPage |-> "undefined"]

Flag(b, style) == IF b THEN "true" ELSE IF style = "nullable" THEN "null" ELSE "false"

\* fetchData(pageIndex, pageSize): the IResponseData the caller's function
\* resolves with, for a server holding `total` items
fetchData(index, size, total, style) ==
    IF style = "no paging"
    THEN [NoData EXCEPT !.defined = TRUE, !.items = <<index, size>>]
    ELSE [defined |-> TRUE, items |-> <<index, size>>, paging |-> TRUE,
          totalItems |-> total,
          totalPages |-> (total + size - 1) \div size,
          hasNextPage |-> Flag((index + 1) * size < total, style),
          hasPreviousPage |-> Flag(index > 0, style)]

\* a query: its data, status, fetchStatus, stale mark, and the number of
\* fetchData invocations whose promise it is waiting for
EmptyEntry == [data |-> NoData, status |-> "pending", fetching |-> FALSE,
               isInvalidated |-> FALSE, invoked |-> 0, revertStatus |-> "pending"]

\* (mutant) every subscription invokes queryFn, in flight or not
ObserveNoCoalescing(es, index, size) ==
    IF Enabled(index)
    THEN [es EXCEPT ![<<index, size>>] = StartFetch(@)]
    ELSE es

\* useQuery observing [...queryKey, index, size]: an enabled query is fetched
\* on mount (staleTime 0); a fetch already in flight is joined, not repeated
Observe(es, index, size) ==
    IF Enabled(index) /\ ~es[<<index, size>>].fetching
    THEN [es EXCEPT ![<<index, size>>] = StartFetch(@)]
    ELSE es

\* the observer remembers the last query it showed that had data
Remember(es, index, size, last) ==
    IF es[<<index, size>>].data.defined THEN <<index, size>> ELSE last

\* const [pageIndex, setPageIndex] = useState(0): the setter React returns
setPageIndex(i) ==
    /\ i # pageIndex
    /\ pageIndex' = i
    /\ entries' = Observe(entries, i, pageSize)
    /\ lastDefined' = Remember(entries, i, pageSize, lastDefined)
    /\ UNCHANGED <<pageSize, serverTotal, pprops, peer>>

\* const [pageSize, setPageSize] = useState(...): the setter React returns
setPageSize(n) ==
    /\ n # pageSize
    /\ pageSize' = n
    /\ entries' = Observe(entries, pageIndex, n)
    /\ lastDefined' = Remember(entries, pageIndex, n, lastDefined)
    /\ UNCHANGED <<pageIndex, serverTotal, pprops, peer>>

\* a second component's usePagination (same queryKey, fetchData, enabled)
\* mounts on, or moves to, window w
peerObserve(w) ==
    /\ w # peer
    /\ peer' = w
    /\ entries' = Observe(entries, w[1], w[2])
    /\ UNCHANGED <<pageIndex, pageSize, lastDefined, serverTotal, pprops>>

\* fetchItems resolves: const response = await fetchData(...); return response
fetchItemsResolve(w) ==
    /\ entries[w].fetching
    /\ entries' = [entries EXCEPT ![w] =
                      [data |-> fetchData(w[1], w[2], serverTotal, pprops.style),
                       status |-> "success", fetching |-> FALSE,
                       isInvalidated |-> FALSE, invoked |-> entries[w].invoked - 1,
                       revertStatus |-> "pending"]]
    /\ lastDefined' = IF w = <<pageIndex, pageSize>> THEN w ELSE lastDefined
    /\ UNCHANGED <<pageIndex, pageSize, serverTotal, pprops, peer>>

\* fetchItems rejects: catch (error) { console.error(...); throw error }; the
\* query (its retries used up) takes status error and keeps its data
fetchItemsReject(w) ==
    /\ entries[w].fetching
    /\ entries' = [entries EXCEPT ![w] = [@ EXCEPT !.status = "error",
                                                   !.fetching = FALSE,
                                                   !.invoked = @ - 1,
                                                   !.revertStatus = "pending"]]
    /\ UNCHANGED <<pageIndex, pageSize, lastDefined, serverTotal, pprops, peer>>

\* the `data` useQuery returns: the entry's data, else, while the query is
\* pending (placeholderData: keepPreviousData), the data of the last query
\* shown that had some
Data ==
    IF entries[<<pageIndex, pageSize>>].data.defined
    THEN entries[<<pageIndex, pageSize>>].data
    ELSE IF entries[<<pageIndex, pageSize>>].status = "pending" /\ lastDefined # NoWindow
    THEN entries[lastDefined].data
    ELSE NoData

\* isFetching, and isLoading = isFetching && isPending
isFetching == entries[<<pageIndex, pageSize>>].fetching
isLoading == isFetching /\ entries[<<pageIndex, pageSize>>].status = "pending"

\* total: data?.paging?.totalItems
total == IF Data.paging THEN Data.totalItems ELSE NoNumber

\* hasNextPage: data?.paging?.hasNextPage !== null
hasNextPage == Data.hasNextPage # "null"

\* hasPreviousPage: data?.paging?.hasPreviousPage !== null || false
hasPreviousPage == Data.hasPreviousPage # "null" \/ FALSE

\* totalPages: data?.paging?.totalPages || 0
totalPages == IF Data.paging /\ Data.totalPages # 0 THEN Data.totalPages ELSE 0

\* the object the hook returns (the two setters apart)
Returned ==
    [data |-> Data.items, isLoading |-> isLoading, pageIndex |-> pageIndex,
     pageSize |-> pageSize, total |-> total, isFetching |-> isFetching,
     hasNextPage |-> hasNextPage, hasPreviousPage |-> hasPreviousPage,
     totalPages |-> totalPages]

InitMutIdle ==
    /\ props = [shouldRefetchQuery |-> "unspecified", onSuccess |-> FALSE, onError |-> FALSE]
    /\ observers = FALSE
    /\ queryData = Undefined
    /\ heap = [o \in ObjIds |-> "done:false"]
    /\ fetching = FALSE
    /\ isInvalidated = FALSE
    /\ mut = [m \in Calls |-> IdleMut]
    /\ dataUpdateCount = 0

InitPage ==
    /\ pprops \in [enabled : BOOLEAN, style : Styles,
                   initialPageSize : {Undefined, AltPageSize},
                   queryKey : {queryKey}]
    /\ serverTotal \in Totals
    /\ pageIndex = 0
    /\ pageSize = InitialPageSize(pprops.initialPageSize)
    /\ entries = Observe([w \in Windows |-> EmptyEntry], 0, pageSize)
    /\ lastDefined = NoWindow
    /\ peer = NoWindow
    /\ InitMutIdle
    /\ InitSocketIdle
    /\ InitUtilIdle

NextPage ==
    \/ \E i \in PageIndexes : setPageIndex(i) /\ UNCHANGED <<mvars, svars, uvars>>
    \/ \E n \in PageSizes : setPageSize(n) /\ UNCHANGED <<mvars, svars, uvars>>
    \/ \E w \in Windows : fetchItemsResolve(w) /\ UNCHANGED <<mvars, svars, uvars>>
    \/ \E w \in Windows : fetchItemsReject(w) /\ UNCHANGED <<mvars, svars, uvars>>

SpecPage == InitPage /\ [][NextPage]_vars

-----------------------------------------------------------------------------
(* Claims about usePagination *)

\* C9: setPageIndex with a negative index leaves pageIndex and pageSize
\* unchanged and starts no fetch
C9_NegativeIndexIgnored ==
    [][\A i \in PageIndexes :
          (i < 0 /\ setPageIndex(i))
             => /\ pageIndex' = pageIndex
                /\ pageSize' = pageSize
                /\ \A w \in Windows : entries'[w].fetching = entries[w].fetching]_vars

\* C10: the exposed hasNextPage, hasPreviousPage, total and totalPages equal
\* what the paging metadata of the data in hand reports
C10_PagingFieldsMirrorMetadata ==
    Data.paging
       => /\ hasNextPage = (Data.hasNextPage = "true")
          /\ hasPreviousPage = (Data.hasPreviousPage = "true")
          /\ total = Data.totalItems
          /\ totalPages = Data.totalPages

\* C16: once no fetch is in flight, the data exposed for the current
\* (pageIndex, pageSize) is the response fetched for exactly that window
C16_DataBelongsToWindow ==
    ((\A w \in Windows : ~entries[w].fetching) /\ Data.defined)
       => Data.items = <<pageIndex, pageSize>>

\* C17: the stored window always satisfies pageIndex >= 0 and pageSize > 0
C17_WindowInvariant == pageIndex >= 0 /\ pageSize > 0

\* reading a property of the returned object: a missing one reads undefined
ErrorSurfaced == \E f \in {"error", "isError", "status"} : f \in DOMAIN Returned

\* C12: when a fetch rejects, the entry keeps its cached value, its status
\* becomes error, and the caller of the hook is given the error
C12_RejectKeepsDataAndSurfacesError ==
    [][\A w \in Windows :
          fetchItemsReject(w)
             => /\ entries'[w].data = entries[w].data
                /\ entries'[w].status = "error"
                /\ (w = <<pageIndex, pageSize>> => ErrorSurfaced)]_vars

-----------------------------------------------------------------------------
(* Two components paginate the same resource *)

InitCoalesce ==
    /\ InitPage
    /\ pprops.style = "boolean"
    /\ serverTotal = MaxTotal

NextCoalesce ==
    \/ NextPage
    \/ \E w \in Windows : peerObserve(w) /\ UNCHANGED <<mvars, svars, uvars>>

SpecCoalesce == InitCoalesce /\ [][NextCoalesce]_vars

\* what the second component's useQuery reads
PeerData == IF peer = NoWindow THEN NoData ELSE entries[peer].data

-----------------------------------------------------------------------------
(* Specifications of useOptimisticMutation *)

PropsSet == [shouldRefetchQuery : {"true", "false", "unspecified"},
             onSuccess : BOOLEAN, onError : BOOLEAN]

InitPageIdle ==
    /\ pprops = [enabled |-> FALSE, style |-> "boolean", initialPageSize |-> Undefined,
                 queryKey |-> queryKey]
    /\ serverTotal = 0
    /\ pageIndex = 0
    /\ pageSize = DefaultPageSize
    /\ entries = [w \in Windows |-> EmptyEntry]
    /\ lastDefined = NoWindow
    /\ peer = NoWindow

InitMut ==
    /\ props \in PropsSet
    /\ observers \in BOOLEAN
    /\ \E v \in {"done:false", Absent} :
          /\ queryData = IF v = Absent THEN Undefined ELSE 1
          /\ heap = [o \in ObjIds |-> IF o = 1 /\ v # Absent THEN v ELSE "done:false"]
          /\ dataUpdateCount = IF v = Absent THEN 0 ELSE 1
    /\ fetching = FALSE
    /\ isInvalidated = FALSE
    /\ mut = [m \in Calls |-> IdleMut]
    /\ InitPageIdle
    /\ InitSocketIdle
    /\ InitUtilIdle

NextMut ==
    \/ \E m \in Muts, v \in Val, alias \in BOOLEAN : mutate(m, v, alias) /\ UNCHANGED <<svars, uvars>>
    \/ \E m \in Muts : onMutate(m) /\ UNCHANGED <<pvars, svars, uvars>>
    \/ \E m \in Muts : mutationFn(m) /\ UNCHANGED <<pvars, svars, uvars>>
    \/ \E m \in Muts, r \in Results : onSuccess(m, r) /\ UNCHANGED <<pvars, svars, uvars>>
    \/ \E m \in Muts : onError(m) /\ UNCHANGED <<pvars, svars, uvars>>
    \/ \E m \in Muts : onSettled(m) /\ UNCHANGED <<svars, uvars>>
    \/ fetchStart /\ UNCHANGED <<pvars, svars, uvars>>
    \/ \E v \in Val : fetchResolve(v) /\ UNCHANGED <<pvars, svars, uvars>>
    \/ fetchReject /\ UNCHANGED <<pvars, svars, uvars>>

SpecMut == InitMut /\ [][NextMut]_vars

\* two mutate calls on the same key, no useQuery mounted on it
InitOverlap == InitMut /\ ~observers

NextOverlap ==
    \/ \E m \in Calls, v \in Val, alias \in BOOLEAN : mutate(m, v, alias) /\ UNCHANGED <<svars, uvars>>
    \/ \E m \in Calls : onMutate(m) /\ UNCHANGED <<pvars, svars, uvars>>
    \/ \E m \in Calls : mutationFn(m) /\ UNCHANGED <<pvars, svars, uvars>>
    \/ \E m \in Calls, r \in Results : onSuccess(m, r) /\ UNCHANGED <<pvars, svars, uvars>>
    \/ \E m \in Calls : onError(m) /\ UNCHANGED <<pvars, svars, uvars>>
    \/ \E m \in Calls : onSettled(m) /\ UNCHANGED <<svars, uvars>>

SpecOverlap == InitOverlap /\ [][NextOverlap]_vars

-----------------------------------------------------------------------------
(* Fairness: the event loop runs every continuation that is ready, and the
   remote mutation function eventually resolves or rejects *)

FairSpecMut ==
    /\ SpecMut
    /\ \A m \in Muts :
          /\ WF_vars(onMutate(m) /\ UNCHANGED <<pvars, svars, uvars>>)
          /\ WF_vars(mutationFn(m) /\ UNCHANGED <<pvars, svars, uvars>>)
          /\ WF_vars(((\E r \in Results : onSuccess(m, r)) \/ onError(m)) /\ UNCHANGED <<pvars, svars, uvars>>)
          /\ WF_vars(onSettled(m) /\ UNCHANGED <<svars, uvars>>)

-----------------------------------------------------------------------------
(* Claims about useOptimisticMutation *)

Has(log, e) == \E i \in 1..Len(log) : log[i] = e
Pos(log, e) == CHOOSE i \in 1..Len(log) : log[i] = e
Last(log) == log[Len(log)]
Unsettled == {"cancelling", "applied", "remote", "succeeded", "failed"}
Applied == {"applied", "remote", "succeeded", "failed"}

\* C1: when the remote mutation function rejects, the value cached under
\* queryKey once the mutation has settled equals the value cached at the moment
\* mutate was invoked (absent included)
C1_RollbackRestoresValueAtMutate ==
    [][\A m \in Calls :
          (mut[m].pc = "failed" /\ mut'[m].pc = "settledError")
             => Deref(heap', queryData') = mut[m].atMutate]_vars

\* C2 (as claimed): after a rejection the snapshot is restored, the error
\* callback is invoked and queryKey is not invalidated, whatever shouldRefetchQuery
C2_NoInvalidateOnError ==
    \A m \in Calls :
        mut[m].pc = "settledError"
           => /\ Has(mut[m].log, "restore")
              /\ (props.onError => Has(mut[m].log, "onError"))
              /\ ~Has(mut[m].log, "invalidate")

\* C2 (amended): after a rejection setQueryData is called with the snapshot,
\* then the error callback (when given) is invoked, and on settling queryKey is
\* invalidated exactly when shouldRefetchQuery is true or unspecified; an
\* observed query is then refetched, and with shouldRefetchQuery false neither
\* the stale flag nor the fetch state changes
C2_InvalidateOnErrorIffEnabled ==
    [][\A m \in Calls :
          (mut[m].pc = "failed" /\ mut'[m].pc = "settledError")
             => /\ Has(mut'[m].log, "restore")
                /\ (props.onError =>
                       /\ Has(mut'[m].log, "onError")
                       /\ Pos(mut'[m].log, "restore") < Pos(mut'[m].log, "onError"))
                /\ (Has(mut'[m].log, "invalidate") <=> ShouldRefetch(props))
                /\ (ShouldRefetch(props) /\ QueryExists => isInvalidated')
                /\ (ShouldRefetch(props) /\ observers => fetching')
                /\ (~ShouldRefetch(props) =>
                       isInvalidated' = isInvalidated /\ fetching' = fetching)]_vars

C2_Witness ==
    \E m \in Calls :
        /\ mut[m].pc = "settledError"
        /\ Has(mut[m].log, "invalidate")
        /\ isInvalidated /\ fetching

\* C3: right after the optimistic-apply step the cache entry under queryKey
\* reads as the pre-mutation value transformed by optimisticUpdateFn
C3_OptimisticValueInCache ==
    [][\A m \in Calls :
          (mut[m].pc = "cancelling" /\ mut'[m].pc = "applied" /\ queryData # Undefined)
             => Deref(heap', queryData') =
                   optimisticUpdateFn(Deref(heap, queryData), mut[m].variables)]_vars

\* C4: a fetch that was in flight when mutate was invoked never writes its
\* result into the entry once the optimistic value has been applied and the
\* mutation has not settled
C4_NoWriteByFetchInFlightAtMutate ==
    [][(\E v \in Val : fetchResolve(v))
          => \A m \in Calls : mut[m].predates => mut[m].pc \notin Applied]_vars

C4_Witness ==
    \E m \in Calls : mut[m].cancelled /\ mut[m].pc = "applied" /\ ~fetching

\* C5: every mutation's steps occur in the order cancel, snapshot, optimistic
\* apply, invocation of the remote mutation function
StepOrder == <<"cancel", "snapshot", "apply", "invoke">>

C5_StepOrder ==
    \A m \in Calls :
        \A i \in 1..Len(mut[m].log) : i <= Len(StepOrder) => mut[m].log[i] = StepOrder[i]

C5_Witness ==
    \E m \in Calls : mut[m].pc = "remote" /\ Len(mut[m].log) = Len(StepOrder)

\* C6 (as claimed): at most one mutation per queryKey is unsettled at any time
C6_OneUnsettledMutation ==
    Cardinality({m \in Calls : mut[m].pc \in Unsettled}) <= 1

\* C6 (amended): mutations on one key are not serialized: once its own
\* cancellation step is done a mutation can take its snapshot and apply its
\* optimistic update, whether or not an earlier mutation has settled
C6_SnapshotNotDeferred ==
    \A m \in Calls : mut[m].pc = "cancelling" => ENABLED onMutate(m)

C6_Witness ==
    \E m, k \in Calls :
        /\ k < m
        /\ mut[k].pc \in {"applied", "remote"}
        /\ mut[m].pc = "applied"

\* C7: when the remote mutation function resolves with r the caller's onSuccess
\* gets exactly r, and with shouldRefetchQuery true or unspecified queryKey is
\* then invalidated: an existing entry is stale and an observed one refetched
C7_SuccessThenInvalidate ==
    [][\A m \in Calls :
          /\ (mut[m].pc = "remote" /\ mut'[m].pc = "succeeded" /\ props.onSuccess)
                => /\ mut'[m].successArg = mut'[m].result
                   /\ Last(mut'[m].log) = "onSuccess"
          /\ (mut[m].pc = "succeeded" /\ mut'[m].pc = "settledSuccess"
                /\ ShouldRefetch(props))
                => /\ Last(mut'[m].log) = "invalidate"
                   /\ (props.onSuccess =>
                          Pos(mut'[m].log, "onSuccess") < Pos(mut'[m].log, "invalidate"))
                   /\ (QueryExists => isInvalidated')
                   /\ (observers => fetching')]_vars

C7_Witness ==
    \E m \in Calls :
        /\ mut[m].pc = "settledSuccess"
        /\ Has(mut[m].log, "onSuccess")
        /\ Last(mut[m].log) = "invalidate"
        /\ isInvalidated

\* C8: every started mutation eventually reaches settled-success or
\* settled-error, and no step takes a mutation backwards or abandons it
Forward == {<<"idle", "cancelling">>, <<"cancelling", "applied">>,
            <<"applied", "remote">>, <<"remote", "succeeded">>,
            <<"remote", "failed">>, <<"succeeded", "settledSuccess">>,
            <<"failed", "settledError">>}

C8_EventuallySettled ==
    /\ \A m \in Muts :
          (mut[m].pc # "idle") ~> (mut[m].pc \in {"settledSuccess", "settledError"})
    /\ [][\A m \in Calls :
             mut'[m].pc # mut[m].pc => <<mut[m].pc, mut'[m].pc>> \in Forward]_vars

C8_Witness ==
    \E m \in Muts :
        /\ mut[m].pc = "settledError"
        /\ Has(mut[m].log, "snapshot")
        /\ Has(mut[m].log, "restore")

-----------------------------------------------------------------------------
(* A mutation on queryKey next to a paginated list *)

InitShared ==
    /\ props \in [shouldRefetchQuery : {"true", "false"},
                   onSuccess : {FALSE}, onError : {FALSE}]
    /\ observers = FALSE
    /\ queryData = Undefined
    /\ heap = [o \in ObjIds |-> "done:false"]
    /\ fetching = FALSE
    /\ isInvalidated = FALSE
    /\ mut = [m \in Calls |-> IdleMut]
    /\ dataUpdateCount = 0
    /\ pprops \in [enabled : {TRUE}, style : {"boolean"},
                    initialPageSize : {Undefined}, queryKey : PaginationKeys]
    /\ serverTotal = MaxTotal
    /\ pageIndex = 0
    /\ pageSize = InitialPageSize(pprops.initialPageSize)
    /\ entries = Observe([w \in Windows |-> EmptyEntry], 0, pageSize)
    /\ lastDefined = NoWindow
    /\ peer = NoWindow
    /\ InitSocketIdle
    /\ InitUtilIdle

NextShared ==
    \/ \E i \in PageIndexes : setPageIndex(i) /\ UNCHANGED <<mvars, svars, uvars>>
    \/ \E w \in Windows : fetchItemsResolve(w) /\ UNCHANGED <<mvars, svars, uvars>>
    \/ \E w \in Windows : fetchItemsReject(w) /\ UNCHANGED <<mvars, svars, uvars>>
    \/ \E m \in Muts, v \in Val, alias \in BOOLEAN : mutate(m, v, alias) /\ UNCHANGED <<svars, uvars>>
    \/ \E m \in Muts : onMutate(m) /\ UNCHANGED <<pvars, svars, uvars>>
    \/ \E m \in Muts : mutationFn(m) /\ UNCHANGED <<pvars, svars, uvars>>
    \/ \E m \in Muts, r \in Results : onSuccess(m, r) /\ UNCHANGED <<pvars, svars, uvars>>
    \/ \E m \in Muts : onError(m) /\ UNCHANGED <<pvars, svars, uvars>>
    \/ \E m \in Muts : onSettled(m) /\ UNCHANGED <<svars, uvars>>

SpecShared == InitShared /\ [][NextShared]_vars

-----------------------------------------------------------------------------
(* Claims about invalidation, retries and revisions *)

Value == Deref(heap, queryData)
MutationStep == \E m \in Calls : mut'[m].pc # mut[m].pc
Settling(m) == mut[m].pc \in {"succeeded", "failed"} /\ mut'[m].pc # mut[m].pc
IsStale(e) == ~e.data.defined \/ e.isInvalidated
Count(log, e) == Cardinality({i \in 1..Len(log) : log[i] = e})
After(log, e) == {log[i] : i \in (Pos(log, e) + 1)..Len(log)}

\* C13: marking the observed entry stale leaves its value in place; while it
\* is stale the value stays readable and unchanged through every step of the
\* query, and the step that resolves the refetch installs the refetched value
C13_StaleWhileRevalidate ==
    [][/\ (~isInvalidated /\ isInvalidated') => Value' = Value
       /\ (isInvalidated /\ observers /\ queryData # Undefined /\ ~MutationStep)
             => /\ \A v \in Val : fetchResolve(v) => Value' = v /\ ~isInvalidated'
                /\ (~\E v \in Val : fetchResolve(v)) => Value' = Value]_vars

C13_Witness ==
    /\ isInvalidated /\ observers /\ fetching
    /\ Value = "done:true"
    /\ \E m \in Muts : mut[m].pc = "settledSuccess"

\* the key of window w starts with K: K followed by something
StartsWith(key, K) == \E n \in 0..Len(key) : SubSeq(key, 1, n) = K

\* C18: when a mutation settles with shouldRefetchQuery enabled, every window
\* query whose key starts with queryKey is stale afterwards and keeps its data,
\* and a query whose key does not start with queryKey is left as it was
C18_InvalidateByPrefix ==
    [][\A m \in Calls :
          (Settling(m) /\ ShouldRefetch(props))
             => \A w \in Windows :
                   IF StartsWith(pprops.queryKey \o w, <<"todos">>)
                   THEN /\ IsStale(entries'[w])
                        /\ entries'[w].data = entries[w].data
                   ELSE entries'[w] = entries[w]]_vars

C18_Witness ==
    /\ \E m \in Muts : mut[m].pc \in {"settledSuccess", "settledError"}
    /\ \E w \in Windows :
          /\ w # <<pageIndex, pageSize>>
          /\ entries[w].data.defined
          /\ entries[w].isInvalidated

\* C19 (as claimed): mutationFn is invoked once per mutate call and after a
\* rejection the coordinator only restores the snapshot and delivers the
\* error callback
C19_OnlyRestoreAndCallbackOnError ==
    \A m \in Calls :
        /\ Count(mut[m].log, "invoke") <= 1
        /\ mut[m].pc = "settledError"
              => After(mut[m].log, "invoke") \subseteq {"restore", "onError"}

\* C19 (amended): mutationFn is invoked at most once per mutate call, a
\* rejection is never retried, and what follows a rejection is the restore,
\* the error callback when given, and the invalidation when shouldRefetchQuery
\* is true or unspecified
C19_NoRetry ==
    \A m \in Calls :
        /\ Count(mut[m].log, "invoke") <= 1
        /\ mut[m].pc \in {"failed", "settledError"}
              => /\ Count(mut[m].log, "invoke") = 1
                 /\ Count(mut[m].log, "restore") = 1
                 /\ After(mut[m].log, "invoke") \subseteq {"restore", "onError", "invalidate"}
                 /\ (Has(mut[m].log, "invalidate") => ShouldRefetch(props))

C19_Witness ==
    \E m \in Muts :
        /\ mut[m].pc = "settledError"
        /\ Count(mut[m].log, "invoke") = 1
        /\ After(mut[m].log, "invoke") = {"restore", "onError", "invalidate"}

\* C20: every accepted write on the entry (its value changes, it is marked
\* stale, or a rollback runs) raises the entry's update count, and the count
\* never goes down
C20_RevisionStrictlyIncreasing ==
    [][/\ dataUpdateCount' >= dataUpdateCount
       /\ (\/ Value' # Value
           \/ ~isInvalidated /\ isInvalidated'
           \/ \E m \in Calls : mut[m].pc = "remote" /\ mut'[m].pc = "failed")
             => dataUpdateCount' > dataUpdateCount]_vars

-----------------------------------------------------------------------------
(* Specification of useSocket *)

InitSocket == InitSocketIdle /\ InitMutIdle /\ InitPageIdle /\ InitUtilIdle

NextSocket ==
    \/ connectionEffect /\ UNCHANGED <<mvars, pvars, uvars>>
    \/ onConnect /\ UNCHANGED <<mvars, pvars, uvars>>
    \/ onDisconnect /\ UNCHANGED <<mvars, pvars, uvars>>
    \/ managerReconnect /\ UNCHANGED <<mvars, pvars, uvars>>
    \/ reconnect /\ UNCHANGED <<mvars, pvars, uvars>>
    \/ \E e \in Events, h \in Handlers : on(e, h) /\ UNCHANGED <<mvars, pvars, uvars>>
    \/ \E e \in Events : off(e) /\ UNCHANGED <<mvars, pvars, uvars>>
    \/ \E e \in Events : inbound(e) /\ UNCHANGED <<mvars, pvars, uvars>>

SpecSocket == InitSocket /\ [][NextSocket]_vars

Front(q) == SubSeq(q, 1, Len(q) - 1)

\* C14: off(e) removes only the most recent registration for e and leaves
\* the earlier ones (and those of other events) in place, and an inbound e
\* invokes every handler registered for e
C14_OffRemovesMostRecentOnly ==
    [][\A e \in Events :
          /\ off(e) => /\ HandlersFor(listeners', e) = Front(HandlersFor(listeners, e))
                       /\ \A f \in Events \ {e} :
                             HandlersFor(listeners', f) = HandlersFor(listeners, f)
          /\ inbound(e) => delivered'.handlers = HandlersFor(listeners, e)]_vars

\* C15: a channel disconnected by a transport-level closure leaves the
\* disconnected state only through a connection attempt started by the
\* caller's reconnect
C15_OnlyReconnectLeavesDisconnected ==
    [][(socketRef.conn = "disconnected" /\ socketRef'.conn # "disconnected")
          => socketRef'.conn = "connecting" /\ socketRef'.openedBy = "caller"]_vars

\* C28: with the url unchanged and the component mounted, the socket the
\* connection effect created is never replaced by a re-render, and a connected
\* channel leaves that state only by a transport-level closure.
C28_OneSocketPerUrl ==
    [][/\ socketRef # NoSocket => ~connectionEffect
       /\ (socketRef.conn = "connected" /\ socketRef'.conn # "connected")
             => /\ socketRef'.conn = "disconnected"
                /\ socketRef'.closedBy = "transport"]_vars

-----------------------------------------------------------------------------
(* Specification of useStateWithHistory *)

\* the hooks of the other sections stay as constructed
InitCoreIdle == InitMutIdle /\ InitPageIdle /\ InitSocketIdle

InitHistory ==
    /\ InitCoreIdle
    /\ InitStorageIdle
    /\ InitQueryIdle
    /\ InitAnimatedIdle
    /\ InitDebounceIdle
    /\ capacity \in 0..MaxCapacity
    /\ \E defaultValue \in HValues :
          /\ historyValue = defaultValue
          /\ renderedValue = defaultValue
          /\ historyRef = <<defaultValue>>
    /\ pointerRef = 0

hframe == <<mvars, pvars, svars, avars, dvars, qvars, stvars>>

NextHistory ==
    \/ \E v \in HValues : set(v) /\ UNCHANGED hframe
    \/ setUpdater /\ UNCHANGED hframe
    \/ renderHistory /\ UNCHANGED hframe
    \/ back /\ UNCHANGED hframe
    \/ forward /\ UNCHANGED hframe
    \/ \E index \in (0 - 1)..(MaxCapacity + 1) : go(index) /\ UNCHANGED hframe

SpecHistory == InitHistory /\ [][NextHistory]_vars

-----------------------------------------------------------------------------
(* Claims about useStateWithHistory *)

\* the array a set leaves before trimming: the entries up to the pointer, then
\* the new value
Pushed == Append(SubSeq(historyRef, 1, pointerRef + 1), historyValue')

\* h is what remains of g once some of its oldest entries are dropped
OldestDropped(h, g) == \E k \in 1..(Len(g) + 1) : h = SubSeq(g, k, Len(g))

\* a step of set, called with a value or with a function
SetStep == (\E v \in HValues : set(v)) \/ setUpdater

\* C21: for a capacity of at least 1, whatever set, back, forward and go calls
\* are made, the history holds at least one and at most capacity entries, and
\* a set that changes the history leaves the newest entries of the array it
\* built: the entries dropped are the oldest ones.
C21_HistoryWithinCapacity ==
    [][capacity >= 1 =>
         /\ Len(historyRef) \in 1..capacity
         /\ Len(historyRef') \in 1..capacity
         /\ historyRef' # historyRef => OldestDropped(historyRef', Pushed)]_vars

\* capacity 1 and a render that saw 1: the history held <<1>> then, and the
\* set of 2 dropped it
C21_Witness ==
    /\ capacity = 1
    /\ historyRef = <<2>>
    /\ renderedValue = 1

\* C29: for a capacity of at least 1 the pointer stays within the history and
\* the state is the entry under it; back at pointer 0, forward at the last
\* index and go with an index outside the history change nothing.
C29_PointerWithinHistory ==
    /\ [](capacity >= 1 =>
            /\ 0 <= pointerRef
            /\ pointerRef <= Len(historyRef) - 1
            /\ historyValue = historyRef[pointerRef + 1])
    /\ [][capacity >= 1 =>
            /\ (back /\ pointerRef = 0) => UNCHANGED hvars
            /\ (forward /\ pointerRef = Len(historyRef) - 1) => UNCHANGED hvars
            /\ \A index \in (0 - 1)..(MaxCapacity + 1) :
                   (go(index) /\ (index < 0 \/ index > Len(historyRef) - 1))
                       => UNCHANGED hvars]_vars

\* the pointer is back at the first of three entries
C29_Witness ==
    /\ capacity >= 1
    /\ Len(historyRef) = 3
    /\ pointerRef = 0
    /\ historyValue = historyRef[1]

\* C30: a set of a value other than the entry under the pointer, made while
\* the pointer is before the last index, drops every entry after the pointer
\* and appends the value, which is then the last entry with the pointer on it,
\* so that forward has nothing to move to; a set of the value under the
\* pointer leaves history and pointer as they are.
C30_SetDiscardsFuture ==
    [][SetStep =>
         /\ (/\ pointerRef < Len(historyRef) - 1
             /\ historyRef[pointerRef + 1] # historyValue')
               => /\ OldestDropped(historyRef', Pushed)
                  /\ historyRef'[Len(historyRef')] = historyValue'
                  /\ pointerRef' = Len(historyRef') - 1
         /\ (/\ 0 <= pointerRef
             /\ pointerRef <= Len(historyRef) - 1
             /\ historyRef[pointerRef + 1] = historyValue')
               => UNCHANGED <<historyRef, pointerRef>>]_vars

\* capacity 3 and a render that saw 1: the entry 1 came after 0 and the set
\* of 2, made with the pointer on 0, discarded it
C30_Witness ==
    /\ capacity = 3
    /\ historyRef = <<0, 2>>
    /\ pointerRef = 1
    /\ renderedValue = 1

-----------------------------------------------------------------------------
(* Specification of useAnimatedUnmount *)

InitAnimated ==
    /\ InitCoreIdle
    /\ InitStorageIdle
    /\ InitQueryIdle
    /\ InitHistoryIdle
    /\ InitDebounceIdle
    /\ \E initialShouldRender \in BOOLEAN, mountDelay, unmountDelay \in 1..MaxDelay :
          InitAnimatedWith(initialShouldRender, mountDelay, unmountDelay)

aframe == <<mvars, pvars, svars, hvars, dvars, qvars, stvars>>

NextAnimated ==
    \/ setMountedEffect /\ UNCHANGED aframe
    \/ \E value \in BOOLEAN : setMountedCall(value) /\ UNCHANGED aframe
    \/ animTimeout /\ UNCHANGED aframe
    \/ animTick /\ UNCHANGED aframe

SpecAnimated == InitAnimated /\ [][NextAnimated]_vars

\* C22: once every pending timeout has fired, shouldRender and isVisible both
\* equal the argument of the most recent setMounted call.
C22_SettlesToLastArgument ==
    (~mountEffect /\ animTimers = <<>>) =>
        /\ shouldRender = lastMounted
        /\ isVisible = lastMounted

-----------------------------------------------------------------------------
(* Specification of useDebounceCallback *)

InitDebounce ==
    /\ InitCoreIdle
    /\ InitStorageIdle
    /\ InitQueryIdle
    /\ InitHistoryIdle
    /\ InitAnimatedIdle
    /\ \E d \in 1..(MaxDelay + 1) : InitDebounceWith(d)

dframe == <<mvars, pvars, svars, hvars, avars, qvars, stvars>>

NextDebounce ==
    \/ debounceMount /\ UNCHANGED dframe
    \/ dependencyChange /\ UNCHANGED dframe
    \/ \E c \in 1..MaxCallbacks : callbackChange(c) /\ UNCHANGED dframe
    \/ \E d \in 1..(MaxDelay + 1) : delayChange(d) /\ UNCHANGED dframe
    \/ debounceUnmount /\ UNCHANGED dframe
    \/ debTimeout /\ UNCHANGED dframe
    \/ debTick /\ UNCHANGED dframe

SpecDebounce == InitDebounce /\ [][NextDebounce]_vars

\* the runs of the callback counted against the time since the last change
RunsAfterDelay ==
    /\ executions <= 1
    /\ (executions = 1) => (changed /\ sinceChange >= delay)
    /\ (changed /\ debPhase = "mounted" /\ sinceChange >= delay /\ ~Due(debTimers))
          => (executions = 1)

\* C23: the callback runs only once the full delay has passed since the most
\* recent dependency change; a change made before that cancels the pending
\* run; and when no further change follows for the delay (the component
\* staying mounted) the callback has run exactly once.
C23_Debounced ==
    /\ []RunsAfterDelay
    /\ [][executions' # executions =>
            \/ executions' = 0 /\ sinceChange' = 0 /\ debTimers' # <<>>
            \/ executions' = 1 /\ sinceChange = delay /\ ranCallback' = callbackRef]_vars

\* a dependency changed, another change restarted the wait, and the callback
\* ran once the delay had passed
C23_Witness ==
    /\ changed
    /\ delay = 2
    /\ executions = 1
    /\ sinceChange = delay
    /\ ranCallback = 2

-----------------------------------------------------------------------------
(* Specification of useQueryParams *)

\* the default values and the queries the page is opened with
Defaults == {ArrayValue(<<>>), StringValue(Str(<<"b">>))}
Queries ==
    {<<>>,
     <<[name |-> "page", value |-> Str(<<"a">>)]>>,
     <<[name |-> paramName, value |-> Str(<<"b">>)], [name |-> "page", value |-> Str(<<"a">>)]>>}

InitQuery ==
    /\ InitCoreIdle
    /\ InitStorageIdle
    /\ InitHistoryIdle
    /\ InitAnimatedIdle
    /\ InitDebounceIdle
    /\ \E defaultValue \in Defaults, usePush \in BOOLEAN, query \in Queries :
          InitQueryWith(defaultValue, usePush, query)

qframe == <<mvars, pvars, svars, hvars, avars, dvars, stvars>>

NextQuery ==
    \/ \E value \in QValues : setQueryParam(value) /\ UNCHANGED qframe
    \/ navigate /\ UNCHANGED qframe

SpecQuery == InitQuery /\ [][NextQuery]_vars

\* C24: once the navigation of setQueryParam(v) is committed, queryParams is
\* v for a non-empty array of strings, [v] for a non-empty string, and the
\* default value(s) for the empty string, the parameter being gone from the
\* URL.
C24_RoundTrip ==
    (lastSet # NoValue /\ ~navigation.pending) =>
        /\ (lastSet.isArray /\ lastSet.items # <<>>) => queryParams = lastSet.items
        /\ (~lastSet.isArray /\ lastSet.items[1] # EmptyString)
              => queryParams = lastSet.items
        /\ (~lastSet.isArray /\ lastSet.items[1] = EmptyString)
              => /\ queryParams = qprops.defaultValue.items
                 /\ ~has(searchParams, paramName)

-----------------------------------------------------------------------------
(* Specification of useStorage *)

InitStorage ==
    /\ InitCoreIdle
    /\ InitHistoryIdle
    /\ InitAnimatedIdle
    /\ InitDebounceIdle
    /\ InitQueryIdle
    /\ \E storage \in [Keys -> JsonTexts \cup {Null}], key \in Keys,
          isFunction \in BOOLEAN, value \in JsValues :
          InitStorageWith(storage, key, [isFunction |-> isFunction, value |-> value])

stframe == <<mvars, pvars, svars, hvars, avars, dvars, qvars>>

NextStorage ==
    \/ storageSync /\ UNCHANGED stframe
    \/ remove /\ UNCHANGED stframe
    \/ \E v \in JsValues : setValue(v) /\ UNCHANGED stframe
    \/ \E key \in Keys : keyChange(key) /\ UNCHANGED stframe

SpecStorage == InitStorage /\ [][NextStorage]_vars

\* the item under the current key
Item == storageObject[storageProps.key]

\* C25: the value of the first render is the stored item, parsed, when the key
\* has one and the default otherwise; and once the effect has run after
\* setValue and remove calls, the item under the key is the JSON text of the
\* value, and there is no item exactly when the value is undefined.
C25_StorageFollowsValue ==
    /\ storagePhase = "first render" =>
          storedValue = IF Item # Null THEN parseJson(Item)
                        ELSE storageProps.defaultValue.value
    /\ ~storageEffect =>
          /\ (Item = Null) <=> (storedValue = "undefined")
          /\ storedValue # "undefined" => Item = stringify(storedValue)

\* the default "John" was written at the mount and remove took the item away
C25_Witness ==
    /\ ~storageEffect
    /\ storageProps.defaultValue.value = "'John'"
    /\ storageObject = [k \in Keys |-> Null]
    /\ storedValue = "undefined"

-----------------------------------------------------------------------------
(* Claims about the outcome of a mutation *)

\* the callbacks the caller gave are the ones that can be invoked
Given(callback) == IF callback THEN 1 ELSE 0

\* "restore" comes before "onError" in the log
RestoredFirst(log) ==
    \A i \in 1..Len(log) :
        log[i] = "onError" => \E j \in 1..(i - 1) : log[j] = "restore"

\* what a mutation has done when it is over, one way or the other
OneOutcome(m) ==
    /\ Count(mut[m].log, "onSuccess") + Count(mut[m].log, "onError") <= 1
    /\ RestoredFirst(mut[m].log)
    /\ mut[m].pc = "settledSuccess" =>
          /\ Count(mut[m].log, "onSuccess") = Given(props.onSuccess)
          /\ Count(mut[m].log, "onError") = 0
          /\ Count(mut[m].log, "restore") = 0
    /\ mut[m].pc = "settledError" =>
          /\ Count(mut[m].log, "onError") = Given(props.onError)
          /\ Count(mut[m].log, "onSuccess") = 0
          /\ Count(mut[m].log, "restore") = 1

\* C26: a mutate call ends in one outcome: onSuccess (when given) invoked once
\* and onError never, or the snapshot restored and then onError (when given)
\* invoked once and onSuccess never; a settled mutation takes no further step:
\* its state and its log, hence its callbacks and cache writes, stay as they
\* are.
C26_ExactlyOneOutcome ==
    /\ [](\A m \in Calls : OneOutcome(m))
    /\ [][\A m \in Calls :
             mut[m].pc \in {"settledSuccess", "settledError"}
                => /\ mut'[m].pc = mut[m].pc
                   /\ mut'[m].log = mut[m].log]_vars

\* one mutation ended with onSuccess and another with restore and onError
C26_Witness ==
    /\ props.onSuccess /\ props.onError
    /\ \E m \in Calls :
          /\ mut[m].pc = "settledSuccess"
          /\ Count(mut[m].log, "onSuccess") = 1
    /\ \E m \in Calls :
          /\ mut[m].pc = "settledError"
          /\ Count(mut[m].log, "onError") = 1

\* C27: with shouldRefetchQuery false no step of a mutation marks queryKey or
\* a window under it stale, starts a fetch or logs an invalidation, and the
\* cached value and its update count change only in the step that applies the
\* optimistic update and in the step that restores the snapshot.
C27_NoRefetchWhenDisabled ==
    [][(props.shouldRefetchQuery = "false" /\ MutationStep) =>
         /\ isInvalidated' => isInvalidated
         /\ fetching' => fetching
         /\ \A m \in Calls : ~Has(mut'[m].log, "invalidate")
         /\ \A w \in Windows :
               /\ entries'[w].isInvalidated => entries[w].isInvalidated
               /\ entries'[w].fetching => entries[w].fetching
         /\ (Value' # Value \/ dataUpdateCount' # dataUpdateCount) =>
               \E m \in Calls :
                   \/ mut[m].pc = "cancelling" /\ mut'[m].pc = "applied"
                   \/ mut[m].pc = "remote" /\ mut'[m].pc = "failed"]_vars

\* with shouldRefetchQuery false a mutation failed and settled on an observed
\* query, which is neither stale nor fetching
C27_Witness ==
    /\ props.shouldRefetchQuery = "false"
    /\ observers /\ ~fetching /\ ~isInvalidated
    /\ queryData # Undefined
    /\ \E m \in Muts :
          /\ mut[m].pc = "settledError"
          /\ Has(mut[m].log, "restore")

====
